---- MODULE Spec2Model ----
(***************************************************************************)
(* The instance-lifecycle coordinator of cf-redislabs-broker               *)
(* (redislabs/instancemanagers/default.go): Create, Update, Destroy and    *)
(* InstanceExists of defaultCreator, run by concurrent callers against one *)
(* state persister and one cluster API client.                             *)
(***************************************************************************)
EXTENDS Integers, Sequences, FiniteSets, TLC

\* ------------------------------------------------------------- bounds
NumCalls == 2          \* calls made in one behaviour, each on its own goroutine

Procs == 1..NumCalls
IDs == {"a", "b", "c"}
Ops == {"Create", "Update", "Destroy", "Exists"}

\* persisters.ServiceInstance, reduced to its ID and the UID of its credentials
Instance(i, u) == [ID |-> i, UID |-> u]

\* Broker states the program can have persisted before the calls modelled here
InitStores ==
    { <<>>,
      <<Instance("a", 1)>>,
      <<Instance("a", 1), Instance("b", 2)>>,
      <<Instance("a", 1), Instance("b", 2), Instance("c", 3)>> }

NoCreds == 0           \* cluster.InstanceCredentials{}: the zero value

\* the completion channel of a call: not made, made and empty, holding the
\* credentials the cluster sent (during the call or after it), or read by the
\* call
Chan(s, v) == [st |-> s, val |-> v]
NoChan == Chan("none", NoCreds)

\* no snapshot loaded, nothing saved
Nothing == <<Instance("none", NoCreds)>>

VARIABLES
    store,        \* the persisted Broker State: AvailableInstances
    locked,       \* defaultCreator.lock
    nextUID,      \* the UID the cluster gives the next database it creates
    pc,           \* where each caller is in its call
    op,           \* the operation each caller runs
    id,           \* its instanceID argument
    state,        \* the caller's local *state (AvailableInstances)
    left,         \* Destroy: instancesLeft
    idx,          \* Destroy: position of the range loop (next record to visit)
    removed,      \* Destroy: removed
    uid,          \* Create: credentials received; Update: UID resolved
    ch,           \* Create: the completion channel of the call
    \* history of the call each caller is running
    blocked,      \* Create: the lock was held when the call began
    loaded,       \* the snapshot Load returned
    staleBy,      \* operations of other callers that saved since that Load
    nCreateDB,    \* CreateDatabase calls made
    nUpdateDB,    \* UpdateDatabase calls made
    delCalls,     \* DeleteDatabase calls made, in order: the UID and the outcome
    nSave,        \* Save calls made
    ret,          \* the call that returned in the last step, if one did
    \* history of the whole behaviour
    deletedUIDs,  \* UIDs for which DeleteDatabase returned success
    createdOk,    \* IDs for which a Create returned nil
    destroyedOk,  \* IDs for which a Destroy returned nil
    destroyStarted

vars == <<store, locked, nextUID, pc, op, id, state, left, idx, removed, uid, ch,
          blocked, loaded, staleBy, nCreateDB, nUpdateDB, delCalls, nSave, ret,
          deletedUIDs, createdOk, destroyedOk, destroyStarted>>

callVars == <<op, id, state, left, idx, removed, uid, ch>>
histVars == <<blocked, loaded, staleBy, nCreateDB, nUpdateDB, delCalls, nSave>>
globalHist == <<deletedUIDs, createdOk, destroyedOk, destroyStarted>>

\* ------------------------------------------------------------ helpers

\* a scan that never finds the ID
HasIDNever(st, i) == FALSE

\* for _, s := range AvailableInstances { if s.ID == instanceID ... }
HasID(st, i) == \E k \in 1..Len(st) : st[k].ID = i

\* positions of the records with the given ID at or after position from
MatchesFrom(st, i, from) == { k \in from..Len(st) : st[k].ID = i }

Min(S) == CHOOSE x \in S : \A y \in S : x <= y

\* the records st[from..to], in order
Slice(st, from, to) ==
    [k \in 1..(IF to >= from THEN to - from + 1 ELSE 0) |-> st[from + k - 1]]

Count(st, i) == Cardinality({ k \in 1..Len(st) : st[k].ID = i })

\* the sequence st without the records whose ID is i, order kept
RECURSIVE Without(_, _)
Without(st, i) ==
    IF st = <<>> THEN <<>>
    ELSE IF Head(st).ID = i THEN Without(Tail(st), i)
    ELSE <<Head(st)>> \o Without(Tail(st), i)

NoRet == [p |-> 0]

\* what is known of caller p's call when it returns r, before the returning
\* step's own effects
Ret(p, r) ==
    [p |-> p, op |-> op[p], id |-> id[p], result |-> r, blocked |-> blocked[p],
     loaded |-> loaded[p], staleBy |-> staleBy[p], state |-> state[p],
     uid |-> uid[p], chan |-> ch[p], nCreateDB |-> nCreateDB[p],
     nUpdateDB |-> nUpdateDB[p], delCalls |-> delCalls[p], nSave |-> nSave[p],
     saved |-> Nothing, before |-> store]

\* the step is not a return
NoReturn == ret' = NoRet

\* the call returns: the goroutine ends and its locals are gone; a completion
\* channel nobody read stays with the cluster client
Return(p, r) ==
    /\ ret' = r
    /\ pc' = [pc EXCEPT ![p] = "done"]
    /\ op' = [op EXCEPT ![p] = "none"]
    /\ id' = [id EXCEPT ![p] = "none"]
    /\ state' = [state EXCEPT ![p] = <<>>]
    /\ left' = [left EXCEPT ![p] = <<>>]
    /\ idx' = [idx EXCEPT ![p] = 1]
    /\ removed' = [removed EXCEPT ![p] = FALSE]
    /\ uid' = [uid EXCEPT ![p] = NoCreds]
    /\ ch' = [ch EXCEPT ![p] = IF @.st \in {"open", "full"} THEN @ ELSE NoChan]
    /\ blocked' = [blocked EXCEPT ![p] = FALSE]
    /\ loaded' = [loaded EXCEPT ![p] = Nothing]
    /\ nCreateDB' = [nCreateDB EXCEPT ![p] = 0]
    /\ nUpdateDB' = [nUpdateDB EXCEPT ![p] = 0]
    /\ delCalls' = [delCalls EXCEPT ![p] = <<>>]
    /\ nSave' = [nSave EXCEPT ![p] = 0]

\* persister.Save(state) succeeded: the store holds exactly what was passed,
\* and every other caller holding a snapshot now holds a stale one
SaveOk(p) ==
    /\ store' = state[p]
    /\ staleBy' = [q \in Procs |->
                     IF q = p THEN {}
                     ELSE IF loaded[q] # Nothing THEN staleBy[q] \cup {op[p]}
                     ELSE staleBy[q]]

\* staleBy when caller p returns without a successful Save
Forget(p) == staleBy' = [staleBy EXCEPT ![p] = {}]

\* ------------------------------------------------------------ the calls

Init ==
    /\ store \in InitStores
    /\ locked = FALSE
    /\ nextUID = Len(store) + 1
    /\ pc = [p \in Procs |-> "idle"]
    /\ op = [p \in Procs |-> "none"]
    /\ id = [p \in Procs |-> "none"]
    /\ state = [p \in Procs |-> <<>>]
    /\ left = [p \in Procs |-> <<>>]
    /\ idx = [p \in Procs |-> 1]
    /\ removed = [p \in Procs |-> FALSE]
    /\ uid = [p \in Procs |-> NoCreds]
    /\ ch = [p \in Procs |-> NoChan]
    /\ blocked = [p \in Procs |-> FALSE]
    /\ loaded = [p \in Procs |-> Nothing]
    /\ staleBy = [p \in Procs |-> {}]
    /\ nCreateDB = [p \in Procs |-> 0]
    /\ nUpdateDB = [p \in Procs |-> 0]
    /\ delCalls = [p \in Procs |-> <<>>]
    /\ nSave = [p \in Procs |-> 0]
    /\ ret = NoRet
    /\ deletedUIDs = {}
    /\ createdOk = {}
    /\ destroyedOk = {}
    /\ destroyStarted = FALSE

FirstPc(o) ==
    CASE o = "Create" -> "c_lock"
      [] o = "Update" -> "u_load"
      [] o = "Destroy" -> "d_load"
      [] o = "Exists" -> "e_body"

\* the next caller invokes one of the four operations; callers are numbered in
\* the order their calls begin
Call(p, o, i) ==
    /\ pc[p] = "idle"
    /\ \A q \in Procs : q < p => pc[q] # "idle"
    /\ pc' = [pc EXCEPT ![p] = FirstPc(o)]
    /\ op' = [op EXCEPT ![p] = o]
    /\ id' = [id EXCEPT ![p] = i]
    /\ blocked' = [blocked EXCEPT ![p] = (o = "Create" /\ locked)]
    /\ destroyStarted' = (destroyStarted \/ o = "Destroy")
    /\ NoReturn
    /\ UNCHANGED <<store, locked, nextUID, state, left, idx, removed, uid, ch,
                   loaded, staleBy, nCreateDB, nUpdateDB, delCalls, nSave,
                   deletedUIDs, createdOk, destroyedOk>>

\* ---- Create

\* a Lock that does not wait for the holder
CreateLockNoWait(p) ==
    /\ pc[p] = "c_lock"
    /\ locked' = TRUE
    /\ pc' = [pc EXCEPT ![p] = "c_load"]
    /\ NoReturn
    /\ UNCHANGED <<store, nextUID, callVars, histVars, globalHist>>

\* d.lock.Lock()
CreateLock(p) ==
    /\ pc[p] = "c_lock"
    /\ ~locked
    /\ locked' = TRUE
    /\ pc' = [pc EXCEPT ![p] = "c_load"]
    /\ NoReturn
    /\ UNCHANGED <<store, nextUID, callVars, histVars, globalHist>>

\* persister.Load() failed: logger.Fatal logs and panics with the error; the
\* deferred Unlock runs while the panic unwinds
CreateLoadFail(p) ==
    /\ pc[p] = "c_load"
    /\ Return(p, Ret(p, "panic"))
    /\ Forget(p)
    /\ locked' = FALSE
    /\ UNCHANGED <<store, nextUID, globalHist>>

\* a Create that does not look for an existing record
CreateLoadNoScan(p) ==
    /\ pc[p] = "c_load"
    /\ pc' = [pc EXCEPT ![p] = "c_createdb"]
    /\ state' = [state EXCEPT ![p] = store]
    /\ loaded' = [loaded EXCEPT ![p] = store]
    /\ NoReturn
    /\ UNCHANGED <<store, locked, nextUID, op, id, left, idx, removed, uid, ch,
                   blocked, staleBy, nCreateDB, nUpdateDB, delCalls, nSave,
                   globalHist>>

\* persister.Load() succeeded, then the scan for an existing record
CreateLoad(p) ==
    /\ pc[p] = "c_load"
    /\ IF HasID(store, id[p])
         THEN /\ Return(p, [Ret(p, "ErrInstanceExists") EXCEPT !.loaded = store])
              /\ locked' = FALSE
         ELSE /\ pc' = [pc EXCEPT ![p] = "c_createdb"]
              /\ state' = [state EXCEPT ![p] = store]
              /\ loaded' = [loaded EXCEPT ![p] = store]
              /\ NoReturn
              /\ UNCHANGED <<locked, op, id, left, idx, removed, uid, ch, blocked,
                             nCreateDB, nUpdateDB, delCalls, nSave>>
    /\ UNCHANGED <<store, nextUID, staleBy, globalHist>>

\* a createDatabase that drops the client's error and waits on the channel
CreateDatabaseErrIgnored(p) ==
    /\ pc[p] = "c_createdb"
    /\ \/ ch' = [ch EXCEPT ![p] = Chan("open", NoCreds)]
       \/ UNCHANGED ch
    /\ nCreateDB' = [nCreateDB EXCEPT ![p] = @ + 1]
    /\ pc' = [pc EXCEPT ![p] = "c_wait"]
    /\ NoReturn
    /\ UNCHANGED <<store, locked, nextUID, op, id, state, left, idx, removed, uid,
                   blocked, loaded, staleBy, nUpdateDB, delCalls, nSave, globalHist>>

\* d.apiClient.CreateDatabase(settings): a channel, or an error passed on
CreateDatabase(p) ==
    /\ pc[p] = "c_createdb"
    /\ \/ /\ ch' = [ch EXCEPT ![p] = Chan("open", NoCreds)]
          /\ nCreateDB' = [nCreateDB EXCEPT ![p] = @ + 1]
          /\ pc' = [pc EXCEPT ![p] = "c_wait"]
          /\ NoReturn
          /\ UNCHANGED <<locked, op, id, state, left, idx, removed, uid, blocked,
                         loaded, staleBy, nUpdateDB, delCalls, nSave>>
       \/ /\ Return(p, [Ret(p, "ErrFailedToCreateDatabase") EXCEPT !.nCreateDB = @ + 1])
          /\ Forget(p)
          /\ locked' = FALSE
    /\ UNCHANGED <<store, nextUID, globalHist>>

\* the cluster finishes the creation and sends the credentials on the channel,
\* during the call ("full") or after it returned ("late")
Deliver(p) ==
    /\ ch[p].st = "open"
    /\ ch' = [ch EXCEPT ![p] = Chan(IF pc[p] = "done" THEN "late" ELSE "full", nextUID)]
    /\ nextUID' = nextUID + 1
    /\ NoReturn
    /\ UNCHANGED <<store, locked, pc, op, id, state, left, idx, removed, uid,
                   histVars, globalHist>>

\* a Create that puts the new record first
CreateReceivePrepend(p) ==
    /\ pc[p] = "c_wait"
    /\ ch[p].st = "full"
    /\ uid' = [uid EXCEPT ![p] = ch[p].val]
    /\ ch' = [ch EXCEPT ![p] = Chan("read", @.val)]
    /\ state' = [state EXCEPT ![p] = <<Instance(id[p], ch[p].val)>> \o @]
    /\ pc' = [pc EXCEPT ![p] = "c_save"]
    /\ NoReturn
    /\ UNCHANGED <<store, locked, nextUID, op, id, left, idx, removed, histVars,
                   globalHist>>

\* a Create that gives the lock back once the credentials are in, before Save
CreateReceiveUnlock(p) ==
    /\ pc[p] = "c_wait"
    /\ ch[p].st = "full"
    /\ uid' = [uid EXCEPT ![p] = ch[p].val]
    /\ ch' = [ch EXCEPT ![p] = Chan("read", @.val)]
    /\ state' = [state EXCEPT ![p] = Append(@, Instance(id[p], ch[p].val))]
    /\ pc' = [pc EXCEPT ![p] = "c_save"]
    /\ locked' = FALSE
    /\ NoReturn
    /\ UNCHANGED <<store, nextUID, op, id, left, idx, removed, histVars, globalHist>>

\* case credentials := <-ch, then the append of the new record
CreateReceive(p) ==
    /\ pc[p] = "c_wait"
    /\ ch[p].st = "full"
    /\ uid' = [uid EXCEPT ![p] = ch[p].val]
    /\ ch' = [ch EXCEPT ![p] = Chan("read", @.val)]
    /\ state' = [state EXCEPT ![p] = Append(@, Instance(id[p], ch[p].val))]
    /\ pc' = [pc EXCEPT ![p] = "c_save"]
    /\ NoReturn
    /\ UNCHANGED <<store, locked, nextUID, op, id, left, idx, removed, histVars,
                   globalHist>>

\* a Create that drops the timeout error and goes on with empty credentials
CreateTimeoutIgnored(p) ==
    /\ pc[p] = "c_wait"
    /\ state' = [state EXCEPT ![p] = Append(@, Instance(id[p], NoCreds))]
    /\ pc' = [pc EXCEPT ![p] = "c_save"]
    /\ NoReturn
    /\ UNCHANGED <<store, locked, nextUID, op, id, left, idx, removed, uid, ch,
                   histVars, globalHist>>

\* a Create that returns on the timeout without giving the lock back
CreateTimeoutKeepsLock(p) ==
    /\ pc[p] = "c_wait"
    /\ Return(p, Ret(p, "ErrCreateDatabaseTimeoutExpired"))
    /\ Forget(p)
    /\ UNCHANGED <<store, locked, nextUID, globalHist>>

\* case <-time.After(...)
CreateTimeout(p) ==
    /\ pc[p] = "c_wait"
    /\ Return(p, Ret(p, "ErrCreateDatabaseTimeoutExpired"))
    /\ Forget(p)
    /\ locked' = FALSE
    /\ UNCHANGED <<store, nextUID, globalHist>>

\* a Create that returns nil when Save failed
CreateSaveErrSwallowed(p) ==
    /\ pc[p] = "c_save"
    /\ locked' = FALSE
    /\ \/ /\ SaveOk(p)
          /\ Return(p, [Ret(p, "nil") EXCEPT !.nSave = @ + 1, !.saved = state[p]])
          /\ createdOk' = createdOk \cup {id[p]}
       \/ /\ Return(p, [Ret(p, "nil") EXCEPT !.nSave = @ + 1])
          /\ Forget(p)
          /\ UNCHANGED <<store, createdOk>>
    /\ UNCHANGED <<nextUID, deletedUIDs, destroyedOk, destroyStarted>>

\* persister.Save(state)
CreateSave(p) ==
    /\ pc[p] = "c_save"
    /\ locked' = FALSE
    /\ \/ /\ SaveOk(p)
          /\ Return(p, [Ret(p, "nil") EXCEPT !.nSave = @ + 1, !.saved = state[p]])
          /\ createdOk' = createdOk \cup {id[p]}
       \/ /\ Return(p, [Ret(p, "ErrFailedToSaveState") EXCEPT !.nSave = @ + 1])
          /\ Forget(p)
          /\ UNCHANGED <<store, createdOk>>
    /\ UNCHANGED <<nextUID, deletedUIDs, destroyedOk, destroyStarted>>

\* ---- Update

\* persister.Load() failed: the error is returned as it is
UpdateLoadFail(p) ==
    /\ pc[p] = "u_load"
    /\ Return(p, Ret(p, "LoadError"))
    /\ Forget(p)
    /\ UNCHANGED <<store, locked, nextUID, globalHist>>

\* an Update that takes the UID of the last record it visited, not of the match
UpdateLoadLastUID(p) ==
    /\ pc[p] = "u_load"
    /\ IF HasID(store, id[p])
         THEN /\ uid' = [uid EXCEPT ![p] = store[Len(store)].UID]
              /\ state' = [state EXCEPT ![p] = store]
              /\ loaded' = [loaded EXCEPT ![p] = store]
              /\ pc' = [pc EXCEPT ![p] = "u_update"]
              /\ NoReturn
              /\ UNCHANGED <<op, id, left, idx, removed, ch, blocked, nCreateDB,
                             nUpdateDB, delCalls, nSave>>
         ELSE Return(p, [Ret(p, "ErrInstanceDoesNotExist") EXCEPT !.loaded = store])
    /\ UNCHANGED <<store, locked, nextUID, staleBy, globalHist>>

\* persister.Load() succeeded, then the scan for the record with the ID
UpdateLoad(p) ==
    /\ pc[p] = "u_load"
    /\ IF HasID(store, id[p])
         THEN /\ uid' = [uid EXCEPT ![p] = store[Min(MatchesFrom(store, id[p], 1))].UID]
              /\ state' = [state EXCEPT ![p] = store]
              /\ loaded' = [loaded EXCEPT ![p] = store]
              /\ pc' = [pc EXCEPT ![p] = "u_update"]
              /\ NoReturn
              /\ UNCHANGED <<op, id, left, idx, removed, ch, blocked, nCreateDB,
                             nUpdateDB, delCalls, nSave>>
         ELSE Return(p, [Ret(p, "ErrInstanceDoesNotExist") EXCEPT !.loaded = store])
    /\ UNCHANGED <<store, locked, nextUID, staleBy, globalHist>>

\* return d.updateDatabase(instance.Credentials.UID, params)
UpdateDatabase(p) ==
    /\ pc[p] = "u_update"
    /\ \/ Return(p, [Ret(p, "nil") EXCEPT !.nUpdateDB = @ + 1])
       \/ Return(p, [Ret(p, "UpdateError") EXCEPT !.nUpdateDB = @ + 1])
    /\ Forget(p)
    /\ UNCHANGED <<store, locked, nextUID, globalHist>>

\* ---- Destroy

\* persister.Load() failed: the error is returned as it is
DestroyLoadFail(p) ==
    /\ pc[p] = "d_load"
    /\ Return(p, Ret(p, "LoadError"))
    /\ Forget(p)
    /\ UNCHANGED <<store, locked, nextUID, globalHist>>

\* a Destroy whose Load waits while a Create holds the lock
DestroyLoadLocked(p) ==
    /\ pc[p] = "d_load"
    /\ ~locked
    /\ state' = [state EXCEPT ![p] = store]
    /\ loaded' = [loaded EXCEPT ![p] = store]
    /\ pc' = [pc EXCEPT ![p] = "d_loop"]
    /\ NoReturn
    /\ UNCHANGED <<store, locked, nextUID, op, id, left, idx, removed, uid, ch,
                   blocked, staleBy, nCreateDB, nUpdateDB, delCalls, nSave,
                   globalHist>>

\* persister.Load() succeeded; instancesLeft is empty and removed is false
DestroyLoad(p) ==
    /\ pc[p] = "d_load"
    /\ state' = [state EXCEPT ![p] = store]
    /\ loaded' = [loaded EXCEPT ![p] = store]
    /\ pc' = [pc EXCEPT ![p] = "d_loop"]
    /\ NoReturn
    /\ UNCHANGED <<store, locked, nextUID, op, id, left, idx, removed, uid, ch,
                   blocked, staleBy, nCreateDB, nUpdateDB, delCalls, nSave,
                   globalHist>>

\* a call of deleteDatabase and its outcome
Deleted(u, ok) == [UID |-> u, ok |-> ok]

\* a Destroy that goes on when deleteDatabase fails
DestroyDeleteIgnoreError(p) ==
    /\ pc[p] = "d_loop"
    /\ MatchesFrom(state[p], id[p], idx[p]) # {}
    /\ LET j == Min(MatchesFrom(state[p], id[p], idx[p]))
       IN /\ left' = [left EXCEPT ![p] = @ \o Slice(state[p], idx[p], j - 1)]
          /\ idx' = [idx EXCEPT ![p] = j + 1]
          /\ removed' = [removed EXCEPT ![p] = TRUE]
          /\ \/ /\ delCalls' = [delCalls EXCEPT ![p] = Append(@, Deleted(state[p][j].UID, TRUE))]
                /\ deletedUIDs' = deletedUIDs \cup {state[p][j].UID}
             \/ /\ delCalls' = [delCalls EXCEPT ![p] = Append(@, Deleted(state[p][j].UID, FALSE))]
                /\ UNCHANGED deletedUIDs
    /\ NoReturn
    /\ UNCHANGED <<store, locked, nextUID, pc, op, id, state, uid, ch, blocked,
                   loaded, staleBy, nCreateDB, nUpdateDB, nSave, createdOk,
                   destroyedOk, destroyStarted>>

\* a Destroy that does not keep the records before the one it removes
DestroyDeleteDropPassed(p) ==
    /\ pc[p] = "d_loop"
    /\ MatchesFrom(state[p], id[p], idx[p]) # {}
    /\ LET j == Min(MatchesFrom(state[p], id[p], idx[p]))
       IN \/ /\ idx' = [idx EXCEPT ![p] = j + 1]
             /\ delCalls' = [delCalls EXCEPT ![p] = Append(@, Deleted(state[p][j].UID, TRUE))]
             /\ removed' = [removed EXCEPT ![p] = TRUE]
             /\ deletedUIDs' = deletedUIDs \cup {state[p][j].UID}
             /\ NoReturn
             /\ UNCHANGED <<pc, op, id, state, left, uid, ch, blocked, loaded,
                            staleBy, nCreateDB, nUpdateDB, nSave>>
          \/ /\ Return(p, [Ret(p, "DeleteError") EXCEPT
                             !.delCalls = Append(@, Deleted(state[p][j].UID, FALSE))])
             /\ Forget(p)
             /\ UNCHANGED deletedUIDs
    /\ UNCHANGED <<store, locked, nextUID, createdOk, destroyedOk, destroyStarted>>

\* the range loop runs to the next record with the ID, keeping the records it
\* passes, and calls deleteDatabase with that record's UID
DestroyDelete(p) ==
    /\ pc[p] = "d_loop"
    /\ MatchesFrom(state[p], id[p], idx[p]) # {}
    /\ LET j == Min(MatchesFrom(state[p], id[p], idx[p]))
       IN \/ /\ left' = [left EXCEPT ![p] = @ \o Slice(state[p], idx[p], j - 1)]
             /\ idx' = [idx EXCEPT ![p] = j + 1]
             /\ delCalls' = [delCalls EXCEPT ![p] = Append(@, Deleted(state[p][j].UID, TRUE))]
             /\ removed' = [removed EXCEPT ![p] = TRUE]
             /\ deletedUIDs' = deletedUIDs \cup {state[p][j].UID}
             /\ NoReturn
             /\ UNCHANGED <<pc, op, id, state, uid, ch, blocked, loaded, staleBy,
                            nCreateDB, nUpdateDB, nSave>>
          \/ /\ Return(p, [Ret(p, "DeleteError") EXCEPT
                             !.delCalls = Append(@, Deleted(state[p][j].UID, FALSE))])
             /\ Forget(p)
             /\ UNCHANGED deletedUIDs
    /\ UNCHANGED <<store, locked, nextUID, createdOk, destroyedOk, destroyStarted>>

\* a Destroy that saves whether or not it removed a record
DestroyEndLoopNoCheck(p) ==
    /\ pc[p] = "d_loop"
    /\ MatchesFrom(state[p], id[p], idx[p]) = {}
    /\ left' = [left EXCEPT ![p] = @ \o Slice(state[p], idx[p], Len(state[p]))]
    /\ idx' = [idx EXCEPT ![p] = Len(state[p]) + 1]
    /\ state' = [state EXCEPT ![p] = left'[p]]
    /\ pc' = [pc EXCEPT ![p] = "d_save"]
    /\ NoReturn
    /\ UNCHANGED <<store, locked, nextUID, op, id, removed, uid, ch, histVars,
                   globalHist>>

\* the range loop runs to the end, keeping the records it passes; then the
\* test of removed and state.AvailableInstances = instancesLeft
DestroyEndLoop(p) ==
    /\ pc[p] = "d_loop"
    /\ MatchesFrom(state[p], id[p], idx[p]) = {}
    /\ IF ~removed[p]
         THEN /\ Return(p, Ret(p, "ErrInstanceDoesNotExist"))
              /\ Forget(p)
         ELSE /\ left' = [left EXCEPT ![p] = @ \o Slice(state[p], idx[p], Len(state[p]))]
              /\ idx' = [idx EXCEPT ![p] = Len(state[p]) + 1]
              /\ state' = [state EXCEPT ![p] = left'[p]]
              /\ pc' = [pc EXCEPT ![p] = "d_save"]
              /\ NoReturn
              /\ UNCHANGED <<op, id, removed, uid, ch, histVars>>
    /\ UNCHANGED <<store, locked, nextUID, globalHist>>

\* a Destroy that returns nil when Save fails
DestroySaveErrSwallowed(p) ==
    /\ pc[p] = "d_save"
    /\ \/ /\ SaveOk(p)
          /\ Return(p, [Ret(p, "nil") EXCEPT !.nSave = @ + 1, !.saved = state[p]])
          /\ destroyedOk' = destroyedOk \cup {id[p]}
       \/ /\ Return(p, [Ret(p, "nil") EXCEPT !.nSave = @ + 1])
          /\ Forget(p)
          /\ UNCHANGED <<store, destroyedOk>>
    /\ UNCHANGED <<locked, nextUID, deletedUIDs, createdOk, destroyStarted>>

\* persister.Save(state); a failure is returned as it is
DestroySave(p) ==
    /\ pc[p] = "d_save"
    /\ \/ /\ SaveOk(p)
          /\ Return(p, [Ret(p, "nil") EXCEPT !.nSave = @ + 1, !.saved = state[p]])
          /\ destroyedOk' = destroyedOk \cup {id[p]}
       \/ /\ Return(p, [Ret(p, "SaveError") EXCEPT !.nSave = @ + 1])
          /\ Forget(p)
          /\ UNCHANGED <<store, destroyedOk>>
    /\ UNCHANGED <<locked, nextUID, deletedUIDs, createdOk, destroyStarted>>

\* ---- InstanceExists

\* an InstanceExists that loads the state and looks the ID up
InstanceExistsLookup(p) ==
    /\ pc[p] = "e_body"
    /\ Return(p, [Ret(p, IF HasID(store, id[p]) THEN "true" ELSE "false") EXCEPT
                     !.loaded = store])
    /\ Forget(p)
    /\ UNCHANGED <<store, locked, nextUID, globalHist>>

\* return false, nil
InstanceExists(p) ==
    /\ pc[p] = "e_body"
    /\ Return(p, Ret(p, "false"))
    /\ Forget(p)
    /\ UNCHANGED <<store, locked, nextUID, globalHist>>

Next ==
    \/ \E p \in Procs, o \in Ops, i \in IDs : Call(p, o, i)
    \/ \E p \in Procs : CreateLock(p)
    \/ \E p \in Procs : CreateLoadFail(p)
    \/ \E p \in Procs : CreateLoad(p)
    \/ \E p \in Procs : CreateDatabase(p)
    \/ \E p \in Procs : Deliver(p)
    \/ \E p \in Procs : CreateReceive(p)
    \/ \E p \in Procs : CreateTimeout(p)
    \/ \E p \in Procs : CreateSave(p)
    \/ \E p \in Procs : UpdateLoadFail(p)
    \/ \E p \in Procs : UpdateLoad(p)
    \/ \E p \in Procs : UpdateDatabase(p)
    \/ \E p \in Procs : DestroyLoadFail(p)
    \/ \E p \in Procs : DestroyLoad(p)
    \/ \E p \in Procs : DestroyDelete(p)
    \/ \E p \in Procs : DestroyEndLoop(p)
    \/ \E p \in Procs : DestroySave(p)
    \/ \E p \in Procs : InstanceExists(p)

Spec == Init /\ [][Next]_vars

\* the steps of a Create call: Lock, Load, CreateDatabase, the select and Save
CreateProgress(p) ==
    \/ CreateLock(p)
    \/ CreateLoadFail(p)
    \/ CreateLoad(p)
    \/ CreateDatabase(p)
    \/ CreateReceive(p)
    \/ CreateTimeout(p)
    \/ CreateSave(p)

\* Load, CreateDatabase and Save return, the timer fires, and a goroutine that
\* can take the lock does; nothing is assumed of the completion signal or of
\* the callers
FairSpec == Spec /\ \A p \in Procs : WF_vars(CreateProgress(p))

\* ------------------------------------------------------------- claims

\* the callers between Lock's return and Create's return
InCreate == { p \in Procs : pc[p] \in {"c_load", "c_createdb", "c_wait", "c_save"} }

\* C1: at most one Create is between acquiring the lock and returning, and the
\* lock is held exactly while one is: across Load, the scan, CreateDatabase,
\* the wait and Save
C1_OneCreateInFlight ==
    /\ Cardinality(InCreate) <= 1
    /\ locked <=> InCreate # {}

\* a Create waits in the bounded wait, holding the lock, while another Create
\* has been called and stands before Lock
C1_Witness ==
    \E p, q \in Procs : pc[p] = "c_wait" /\ pc[q] = "c_lock" /\ locked

\* a call of operation o returned in the last step
Returned(o) == ret.p # 0 /\ ret.op = o

\* C2: no Create holds, or saves, a snapshot loaded before another Create's
\* Save; and as long as no Destroy was called, the Broker State has exactly one
\* record for every ID whose Create returned nil
C2_NoLostCreate ==
    /\ \A p \in Procs : op[p] = "Create" => "Create" \notin staleBy[p]
    /\ Returned("Create") => "Create" \notin ret.staleBy
    /\ ~destroyStarted => \A i \in createdOk : Count(store, i) = 1

\* all calls have returned, none was a Destroy, two Creates with distinct IDs
\* returned nil, and the second was called while the first held the lock
C2_Witness ==
    /\ \A p \in Procs : pc[p] = "done"
    /\ ~destroyStarted
    /\ Cardinality(createdOk) = 2
    /\ Returned("Create") /\ ret.result = "nil" /\ ret.blocked

\* C3: a Create whose loaded Broker State has a record with its ID returns
\* ErrInstanceExists, having called neither CreateDatabase nor Save, and the
\* Broker State, which it did not change, has exactly one record with that ID
C3_DuplicateCreateRejected ==
    (Returned("Create") /\ ret.loaded # Nothing /\ HasID(ret.loaded, ret.id)) =>
        /\ ret.result = "ErrInstanceExists"
        /\ ret.nCreateDB = 0
        /\ ret.nSave = 0
        /\ store = ret.before
        /\ Count(store, ret.id) = 1

\* a Create called while another Create of the same ID held the lock returns
\* ErrInstanceExists after that one returned nil
C3_Witness ==
    /\ Returned("Create") /\ ret.result = "ErrInstanceExists"
    /\ ret.blocked
    /\ ret.id \in createdOk
    /\ Count(store, ret.id) = 1

\* C4: the persisted Broker State never has two records with the same ID
C4_NoDuplicateIDs == \A i \in IDs : Count(store, i) <= 1

\* a Create returns nil and saves after a Destroy saved during it
C4_Witness ==
    /\ Returned("Create") /\ ret.result = "nil"
    /\ "Destroy" \in ret.staleBy
    /\ store # <<>>

\* the records of a sequence
Records(st) == { st[k] : k \in 1..Len(st) }

\* C5: a Create returns ErrCreateDatabaseTimeoutExpired exactly when it returns
\* with its completion channel made and not read; it has then called Save not
\* once and the Broker State is as it was: unchanged by the return, and equal
\* to the loaded state unless another call saved meanwhile
C5_TimeoutLeavesState ==
    Returned("Create") =>
        /\ (ret.result = "ErrCreateDatabaseTimeoutExpired") <=> (ret.chan.st \in {"open", "full"})
        /\ ret.result = "ErrCreateDatabaseTimeoutExpired" =>
              /\ ret.nSave = 0
              /\ ret.saved = Nothing
              /\ store = ret.before
              /\ ret.staleBy = {} => store = ret.loaded

\* a Create has timed out with the signal not sent, over a non-empty state
C5_Witness ==
    /\ Returned("Create") /\ ret.result = "ErrCreateDatabaseTimeoutExpired"
    /\ ret.chan.st = "open"
    /\ ret.staleBy = {} /\ store # <<>>

\* C6: a Create that returns nil has called Save once, with the loaded state
\* plus one last record of its ID and the credentials the signal delivered,
\* and that is the persisted Broker State
C6_CreateAppends ==
    (Returned("Create") /\ ret.result = "nil") =>
        /\ ret.nSave = 1
        /\ ret.chan.st = "read"
        /\ ret.saved = Append(ret.loaded, Instance(ret.id, ret.chan.val))
        /\ store = ret.saved

\* a Create returned nil over a loaded state of two records
C6_Witness ==
    /\ Returned("Create") /\ ret.result = "nil"
    /\ Len(ret.loaded) = 2
    /\ Len(store) = 3

\* C7: a Destroy whose loaded state has no record of its ID returns the
\* "does not exist" error, having called neither DeleteDatabase nor Save, and
\* the Broker State is as it was
C7_DestroyMissing ==
    (Returned("Destroy") /\ ret.loaded # Nothing /\ ~HasID(ret.loaded, ret.id)) =>
        /\ ret.result = "ErrInstanceDoesNotExist"
        /\ ret.delCalls = <<>>
        /\ ret.nSave = 0
        /\ store = ret.before
        /\ ret.staleBy = {} => store = ret.loaded

\* a Destroy of an ID that is not in a non-empty state has returned
C7_Witness ==
    /\ Returned("Destroy") /\ ret.result = "ErrInstanceDoesNotExist"
    /\ ret.loaded # <<>>
    /\ ret.staleBy = {}

\* C8: a Destroy one of whose DeleteDatabase calls failed returns that error
\* at once (it was its only DeleteDatabase call), has not called Save, and the
\* Broker State is as it was, the record of its ID included
C8_DeleteFailureKeepsRecord ==
    (Returned("Destroy") /\ \E k \in 1..Len(ret.delCalls) : ~ret.delCalls[k].ok) =>
        /\ ret.result = "DeleteError"
        /\ Len(ret.delCalls) = 1
        /\ ret.nSave = 0
        /\ store = ret.before
        /\ HasID(ret.loaded, ret.id)
        /\ ret.staleBy = {} => (store = ret.loaded /\ Count(store, ret.id) = 1)

\* a Destroy of an existing record has returned the DeleteDatabase error
C8_Witness ==
    /\ Returned("Destroy") /\ ret.result = "DeleteError"
    /\ ret.staleBy = {}
    /\ HasID(store, ret.id)

\* C9: a Destroy that returns nil has called DeleteDatabase exactly once, with
\* the UID of the loaded record of its ID, and Save once, with the loaded state
\* without that record, the others in their order; that is the Broker State
C9_DestroyRemoves ==
    (Returned("Destroy") /\ ret.result = "nil") =>
        /\ \E k \in 1..Len(ret.loaded) :
              /\ ret.loaded[k].ID = ret.id
              /\ ret.delCalls = <<Deleted(ret.loaded[k].UID, TRUE)>>
        /\ ret.nSave = 1
        /\ ret.saved = Without(ret.loaded, ret.id)
        /\ Len(ret.saved) = Len(ret.loaded) - 1
        /\ store = ret.saved

\* a Destroy of the middle one of three records has returned nil
C9_Witness ==
    /\ Returned("Destroy") /\ ret.result = "nil"
    /\ Len(ret.loaded) = 3 /\ ret.loaded[2].ID = ret.id
    /\ Len(store) = 2

\* C10: a record leaves the persisted Broker State only in a step after which
\* DeleteDatabase has returned success for its UID
C10_RemovedOnlyAfterDelete ==
    [][\A r \in Records(store) : r \notin Records(store') => r.UID \in deletedUIDs']_vars
\* C11: a Create whose CreateDatabase call returned an error, and so no
\* channel, returns that error; it received nothing, has not called Save, and
\* the Broker State is as it was
C11_ClientErrorPassedOn ==
    (Returned("Create") /\ ret.nCreateDB = 1 /\ ret.chan.st = "none") =>
        /\ ret.result = "ErrFailedToCreateDatabase"
        /\ ret.uid = NoCreds
        /\ ret.nSave = 0
        /\ ret.saved = Nothing
        /\ store = ret.before
        /\ ret.staleBy = {} => store = ret.loaded

\* a Create over a non-empty state has returned the client's error
C11_Witness ==
    /\ Returned("Create") /\ ret.result = "ErrFailedToCreateDatabase"
    /\ ret.nCreateDB = 1
    /\ ret.staleBy = {} /\ store # <<>>
\* C12: a Create whose Load failed returns ErrFailedToLoadState, having called
\* neither CreateDatabase nor Save, and with the lock released
C12_LoadFailureReturnsNamedError ==
    (Returned("Create") /\ ret.loaded = Nothing) =>
        /\ ret.result = "ErrFailedToLoadState"
        /\ ret.nCreateDB = 0
        /\ ret.nSave = 0
        /\ ~locked
\* C13: a Create that received the signal and whose Save failed returns
\* ErrFailedToSaveState; nothing of the new instance is persisted
C13_SaveFailureReported ==
    (Returned("Create") /\ ret.nSave >= 1 /\ ret.saved = Nothing) =>
        /\ ret.result = "ErrFailedToSaveState"
        /\ ret.nSave = 1
        /\ ret.chan.st = "read" /\ ret.uid = ret.chan.val
        /\ store = ret.before
        /\ \A r \in Records(store) : r.UID # ret.uid
        /\ ret.staleBy = {} => store = ret.loaded

\* a Create has received credentials and returned ErrFailedToSaveState
C13_Witness ==
    /\ Returned("Create") /\ ret.result = "ErrFailedToSaveState"
    /\ ret.uid # NoCreds
    /\ ~HasID(store, ret.id)
\* C14: an Update never calls Save and never changes the Broker State; when
\* the loaded state has no record of its ID it returns the "does not exist"
\* error without calling UpdateDatabase; when it has one, it calls
\* UpdateDatabase once, with that record's UID, and returns what that returned
C14_UpdateForwards ==
    Returned("Update") =>
        /\ ret.nSave = 0 /\ ret.saved = Nothing
        /\ ret.nCreateDB = 0 /\ ret.delCalls = <<>>
        /\ store = ret.before
        /\ (ret.loaded # Nothing /\ ret.staleBy = {}) => store = ret.loaded
        /\ (ret.loaded # Nothing /\ ~HasID(ret.loaded, ret.id)) =>
              (ret.result = "ErrInstanceDoesNotExist" /\ ret.nUpdateDB = 0)
        /\ (ret.loaded # Nothing /\ HasID(ret.loaded, ret.id)) =>
              /\ ret.nUpdateDB = 1
              /\ \E k \in 1..Len(ret.loaded) :
                    ret.loaded[k].ID = ret.id /\ ret.uid = ret.loaded[k].UID
              /\ ret.result \in {"nil", "UpdateError"}

\* an Update of the first of several records has returned nil
C14_Witness ==
    /\ Returned("Update") /\ ret.result = "nil"
    /\ Len(ret.loaded) >= 2 /\ ret.loaded[1].ID = ret.id
    /\ ret.nUpdateDB = 1

\* C15: InstanceExists returns false and no error whatever the ID and the
\* Broker State, and calls neither Load nor Save nor the cluster client
C15_ExistsAlwaysFalse ==
    Returned("Exists") =>
        /\ ret.result = "false"
        /\ ret.loaded = Nothing
        /\ ret.nSave = 0 /\ ret.nCreateDB = 0 /\ ret.nUpdateDB = 0
        /\ ret.delCalls = <<>>
        /\ store = ret.before

\* InstanceExists has returned for an ID that has a record in the Broker State
C15_Witness ==
    /\ Returned("Exists") /\ ret.result = "false"
    /\ HasID(store, ret.id)
\* C16: a Create that reached the bounded wait returns in exactly one of two
\* ways: it read the signal, once, and went on to Save with those credentials,
\* or it read nothing and returned ErrCreateDatabaseTimeoutExpired without a
\* Save; credentials left in the channel of a call that has returned, sent
\* before or after the timeout, are in no record of the Broker State
C16_WaitRace ==
    /\ (Returned("Create") /\ ret.chan.st # "none") =>
          \/ /\ ret.chan.st = "read"
             /\ ret.uid = ret.chan.val
             /\ ret.nSave = 1
             /\ ret.result \in {"nil", "ErrFailedToSaveState"}
          \/ /\ ret.chan.st \in {"open", "full"}
             /\ ret.uid = NoCreds
             /\ ret.nSave = 0
             /\ ret.result = "ErrCreateDatabaseTimeoutExpired"
    /\ \A p \in Procs :
          /\ ch[p].st = "read" => (pc[p] = "c_save" /\ uid[p] = ch[p].val)
          /\ ch[p].st = "late" => pc[p] = "done"
          /\ (pc[p] = "done" /\ ch[p].st \in {"full", "late"}) =>
                \A r \in Records(store) : r.UID # ch[p].val

\* the signal of a Create that timed out was sent after the call returned,
\* and another call has saved since
C16_Witness ==
    \E p \in Procs :
        /\ pc[p] = "done" /\ ch[p].st = "late"
        /\ createdOk # {}
\* C17: every Create that stands before Lock acquires the lock, every Create
\* that was called returns, and the lock, once held, is released
C17_CreateReturnsAndUnlocks ==
    /\ \A p \in Procs : (pc[p] = "c_lock") ~> (pc[p] = "c_load")
    /\ \A p \in Procs :
          (pc[p] \in {"c_lock", "c_load", "c_createdb", "c_wait", "c_save"}) ~> (pc[p] = "done")
    /\ locked ~> ~locked

\* a Create that was called while the lock was held has returned on the
\* timeout, its signal never sent, and the lock is free
C17_Witness ==
    /\ Returned("Create") /\ ret.result = "ErrCreateDatabaseTimeoutExpired"
    /\ ret.blocked
    /\ ret.chan.st = "open"
    /\ ~locked
\* C18: Destroy and Update never wait for the lock of Create: whatever the
\* lock's state, a Destroy can take its Load, its loop step and its Save, and
\* an Update its Load and its UpdateDatabase call; a Destroy that returns nil
\* after a Create has saved since its Load has persisted its own snapshot
\* without the record of its ID, whatever the Create saved
C18_DestroyUpdateNeverWait ==
    /\ \A p \in Procs :
          /\ pc[p] = "d_load" => ENABLED DestroyLoad(p)
          /\ pc[p] = "d_loop" => ENABLED (DestroyDelete(p) \/ DestroyEndLoop(p))
          /\ pc[p] = "d_save" => ENABLED DestroySave(p)
          /\ pc[p] = "u_load" => ENABLED UpdateLoad(p)
          /\ pc[p] = "u_update" => ENABLED UpdateDatabase(p)
    /\ (Returned("Destroy") /\ ret.result = "nil" /\ "Create" \in ret.staleBy) =>
          store = Without(ret.loaded, ret.id)

\* Create(x) has returned nil and a Destroy of another ID, which loaded before
\* that Create saved, has returned nil: the Broker State has no record of x
C18_Witness ==
    /\ Returned("Destroy") /\ ret.result = "nil"
    /\ "Create" \in ret.staleBy
    /\ \E x \in createdOk : x # ret.id /\ ~HasID(store, x) /\ HasID(ret.before, x)
\* C19: once a Destroy of an ID has returned nil, a record of that ID enters
\* the persisted Broker State only in the step in which a Create of that ID
\* returns nil
C19_DestroyedStaysAbsent ==
    [][\A i \in destroyedOk :
          (~HasID(store, i) /\ HasID(store', i)) =>
              (ret'.p # 0 /\ ret'.op = "Create" /\ ret'.id = i /\ ret'.result = "nil")]_vars
\* C20: a Destroy whose Save failed returns the Store's error, after one
\* successful DeleteDatabase call and that one Save call, with no other client
\* call; the Broker State is as it was, and when no other caller saved since
\* its Load, the record of its ID is still there, its database deleted
C20_DestroySaveFailure ==
    (Returned("Destroy") /\ ret.nSave >= 1 /\ ret.saved = Nothing) =>
        /\ ret.result = "SaveError"
        /\ ret.nSave = 1
        /\ Len(ret.delCalls) = 1 /\ ret.delCalls[1].ok
        /\ ret.delCalls[1].UID \in deletedUIDs
        /\ ret.nCreateDB = 0 /\ ret.nUpdateDB = 0
        /\ store = ret.before
        /\ ret.staleBy = {} =>
              /\ store = ret.loaded
              /\ \E k \in 1..Len(store) :
                    store[k] = Instance(ret.id, ret.delCalls[1].UID)

\* a Destroy has deleted the database of its record and returned the Store's
\* error: the record is still in the Broker State
C20_Witness ==
    /\ Returned("Destroy") /\ ret.result = "SaveError"
    /\ ret.staleBy = {}
    /\ \E k \in 1..Len(store) :
          store[k].ID = ret.id /\ store[k].UID \in deletedUIDs
====
